---- MODULE Spec2Model ----
(***************************************************************************)
(* Model of scripts/whisper_transcribe.py: resolve_model_path, the nested  *)
(* split_text, and the driver main().                                      *)
(*                                                                         *)
(* A text is a sequence of characters; a character is a one-element string *)
(* (full-width characters are written by their code point, "u3002").       *)
(* Times are fixed point: the recognizer's times are in milliseconds, the  *)
(* times the driver computes are in hundredths of a second.                *)
(***************************************************************************)
EXTENDS Integers, Sequences, FiniteSets, TLC

VARIABLES
    pc,           \* position in main / split_text
    caller,       \* who called split_text: "main" or "test" (a direct call)
    text_arg,     \* the text the caller passed to split_text
    text,         \* split_text's local `text` (the remaining text)
    max_len,      \* split_text's parameter
    result,       \* split_text's local `result`
    split_pos,    \* split_text's local `split_pos` of the last iteration
    fs,           \* the file system resolve_model_path looks at
    model_name,   \* args.model
    model_path,   \* main's model_path
    audio,        \* what the recognizer yields for args.audio: raw segments
    segment_list, \* main's segment_list
    i,            \* main's loop index
    start_time,   \* main's start_time (hundredths of a second)
    end_time,     \* main's end_time
    subtitles,    \* main's subtitles["data"]
    log,          \* everything printed, in order, each item with its stream
    file_opened,  \* whether open(args.output, "w") has happened
    file_data,    \* what json.dump wrote
    exit_code     \* the process's exit status, -1 while running

vars == << pc, caller, text_arg, text, max_len, result, split_pos, fs,
           model_name, model_path, audio, segment_list, i, start_time,
           end_time, subtitles, log, file_opened, file_data, exit_code >>

splitVars == << text_arg, text, max_len, result, split_pos >>
mainVars == << fs, model_name, model_path, audio, segment_list, i,
               start_time, end_time, subtitles, log, file_opened,
               file_data, exit_code >>

----------------------------------------------------------------------------
\* Bounds of the model.

\* longest text passed to split_text by a direct call
MaxTextLen == 5
\* largest max_len of a direct call
MaxMaxLen == 3
\* most raw segments in a run with several segments
MaxSegments == 2
\* most children of a snapshots directory
MaxSnapshots == 2

----------------------------------------------------------------------------
\* Python's str and slices.

Max(S) == CHOOSE x \in S : \A y \in S : y <= x
Min2(a, b) == IF a < b THEN a ELSE b
Max2(a, b) == IF a > b THEN a ELSE b

\* characters for which str.isspace() is true (those the model uses)
IsSpace(c) == c \in {" ", "\t", "\n", "u3000"}

\* s[a:b], 0-based, end clamped to len(s)
Slice(s, a, b) == SubSeq(s, a + 1, Min2(b, Len(s)))

RECURSIVE lstrip(_)
lstrip(s) == IF s # << >> /\ IsSpace(Head(s)) THEN lstrip(Tail(s)) ELSE s

RECURSIVE rstrip(_)
rstrip(s) ==
    IF s # << >> /\ IsSpace(s[Len(s)]) THEN rstrip(SubSeq(s, 1, Len(s) - 1))
    ELSE s

\* str.strip()
strip(s) == rstrip(lstrip(s))

\* str.rfind(p) for a one-character p: the last 0-based index, or -1
rfind(s, p) ==
    LET I == {k \in 1..Len(s) : s[k] = p}
    IN  IF I = {} THEN -1 ELSE Max(I) - 1

----------------------------------------------------------------------------
\* split_text

punctuations ==
    << "u3002", "uFF01", "uFF1F", "uFF0C", "u3001", "uFF1B",
       ".", "!", "?", ",", ";", " " >>

\* a scan in which the first punctuation type found in the window wins
RECURSIVE ScanFirstType(_, _, _)
ScanFirstType(window, k, sp) ==
    IF k > Len(punctuations) THEN sp
    ELSE LET pos == rfind(window, punctuations[k])
         IN  IF pos >= 0 THEN pos ELSE ScanFirstType(window, k + 1, sp)

\* for p in punctuations: pos = window.rfind(p); if pos > split_pos: ...
RECURSIVE ScanPunctuations(_, _, _)
ScanPunctuations(window, k, sp) ==
    IF k > Len(punctuations) THEN sp
    ELSE LET pos == rfind(window, punctuations[k])
         IN  ScanPunctuations(window, k + 1, IF pos > sp THEN pos ELSE sp)

\* a force-split one character too far
ForceSplitPosLate(sp, ml) == IF sp <= 0 THEN ml ELSE sp

\* if split_pos <= 0: split_pos = max_len - 1
ForceSplitPos(sp, ml) == IF sp <= 0 THEN ml - 1 ELSE sp

\* the split_pos one iteration of the while loop settles on
FindSplitPos(txt, ml) ==
    ForceSplitPos(ScanPunctuations(Slice(txt, 0, ml), 1, -1), ml)

\* text[: split_pos + 1].strip()
ChunkOf(txt, sp) == strip(Slice(txt, 0, sp + 1))

\* a remainder that skips the character after the cut
RestOfSkipping(txt, sp) == strip(Slice(txt, sp + 2, Len(txt)))

\* a remainder that does not strictly shrink
RestOfStuck(txt, sp) == IF sp = 0 THEN txt ELSE strip(Slice(txt, sp + 1, Len(txt)))

\* text[split_pos + 1 :].strip()
RestOf(txt, sp) == strip(Slice(txt, sp + 1, Len(txt)))

\* where split_text returns to
ReturnPc == IF caller = "main" THEN "parts" ELSE "split_done"

\* if len(text) <= max_len: return [text]; else result = []
SplitEnter ==
    /\ pc = "split_call"
    /\ IF Len(text) <= max_len
       THEN /\ result' = << text >>
            /\ pc' = ReturnPc
       ELSE /\ result' = << >>
            /\ pc' = "split_loop"
    /\ UNCHANGED << caller, text_arg, text, max_len, split_pos >>
    /\ UNCHANGED mainVars

\* one iteration of: while len(text) > max_len
SplitIter ==
    /\ pc = "split_loop"
    /\ Len(text) > max_len
    /\ LET sp == FindSplitPos(text, max_len)
       IN  /\ split_pos' = sp
           /\ result' = Append(result, ChunkOf(text, sp))
           /\ text' = RestOf(text, sp)
    /\ UNCHANGED << pc, caller, text_arg, max_len >>
    /\ UNCHANGED mainVars

\* the loop ends: if text: result.append(text); return result
SplitExit ==
    /\ pc = "split_loop"
    /\ Len(text) <= max_len
    /\ result' = IF text # << >> THEN Append(result, text) ELSE result
    /\ pc' = ReturnPc
    /\ UNCHANGED << caller, text_arg, text, max_len, split_pos >>
    /\ UNCHANGED mainVars

----------------------------------------------------------------------------
\* resolve_model_path

\* os.environ.get('WHISPER_MODELS_DIR', '/root/.cache/huggingface')
models_dir == "/root/.cache/huggingface"

model_map ==
    ("tiny" :> "models--Systran--faster-whisper-tiny") @@
    ("base" :> "models--Systran--faster-whisper-base") @@
    ("small" :> "models--Systran--faster-whisper-small") @@
    ("medium" :> "models--Systran--faster-whisper-medium") @@
    ("large" :> "models--Systran--faster-whisper-large-v3") @@
    ("large-v3" :> "models--Systran--faster-whisper-large-v3")

\* os.path.isdir(model_name) and os.path.exists(model_name/model.bin)
IsModelDir(f) == f.id_is_dir /\ f.id_has_bin

\* os.path.isdir(<models_dir>/<folder>/snapshots)
HasSnapshotsDir(f, folder) == f.folder = folder

\* a child counts as soon as it is a directory, with or without model.bin
IsSnapshotAnyDir(child) == child.kind \in {"dir", "model"}

\* os.path.isdir(snapshot_path) and os.path.exists(snapshot_path/model.bin)
IsSnapshotWithModel(child) == child.kind = "model"

\* for snapshot in os.listdir(snapshots_dir): the index of the first child
\* that holds model.bin, from k on, or 0
RECURSIVE FirstSnapshot(_, _)
FirstSnapshot(listing, k) ==
    IF k > Len(listing) THEN 0
    ELSE IF IsSnapshotWithModel(listing[k]) THEN k
    ELSE FirstSnapshot(listing, k + 1)

\* a path is the sequence of its components; an identifier is one component
resolve_model_path(name, f) ==
    IF IsModelDir(f) THEN << name >>
    ELSE IF name \in DOMAIN model_map
         THEN LET folder == model_map[name]
                  k == IF HasSnapshotsDir(f, folder)
                       THEN FirstSnapshot(f.listing, 1) ELSE 0
              IN  IF k > 0
                  THEN << models_dir, folder, "snapshots", f.listing[k].name >>
                  ELSE << name >>
         ELSE << name >>

----------------------------------------------------------------------------
\* What the process prints: one item per print call.

Line(stream, kind, val) == [stream |-> stream, kind |-> kind, val |-> val]

info_line == Line("stderr", "INFO", 0)
warn_line == Line("stderr", "WARN", 0)
error_line == Line("stderr", "ERROR", 0)

\* a progress line on standard error
progress_line_stderr(v) == Line("stderr", "PROGRESS", v)

\* print(f"[PROGRESS] {v}", flush=True): no file= argument, so sys.stdout
progress_line(v) == Line("stdout", "PROGRESS", v)

\* print(json.dumps({"success": True, "segments": n, ...}))
json_line(n) == Line("stdout", "JSON", n)

\* the diagnostics resolve_model_path prints
ResolveLog(name, f) ==
    IF IsModelDir(f) \/ name \notin DOMAIN model_map THEN << >>
    ELSE IF resolve_model_path(name, f) # << name >> THEN << info_line >>
    ELSE << warn_line >>

\* except ImportError: two [ERROR] lines
import_error_lines == << error_line, error_line >>

\* except Exception: one [ERROR] line and the traceback
exception_lines == << error_line, Line("stderr", "TRACEBACK", 0) >>

\* sys.exit(1)
ExitCodeOnError == 1

----------------------------------------------------------------------------
\* Arithmetic of the driver.

MAX_TEXT_LENGTH == 25

\* round() to the nearest integer of num/den (num >= 0, den > 0); at an exact
\* tie the float's binary value decides, so both neighbours are possible
Round2(num, den) ==
    LET q == num \div den
        r == num % den
    IN  IF 2 * r < den THEN {q}
        ELSE IF 2 * r > den THEN {q + 1}
        ELSE {q, q + 1}

\* a percentage that is not scaled by the number of segments
progress_unscaled(idx, total) == 50 + (idx + 1) * 40

\* 50 + int((i + 1) / max(total_segments, 1) * 40)
progress_value(idx, total) == 50 + ((idx + 1) * 40) \div Max2(total, 1)

\* part times counted from index 1 instead of 0
part_times_from_one(st, en, n, j) ==
    IF n > 0 THEN Round2(st * n + (j + 1) * (en - st), n) ELSE {st}

\* the values round(start_time + j * time_per_part, 2) can take, j 0-based,
\* with time_per_part = duration / len(parts) if len(parts) > 0 else 0
part_times(st, en, n, j) ==
    IF n > 0 THEN Round2(st * n + j * (en - st), n) ELSE {st}

\* a loop that is left before its last segment
LoopDoneEarly(idx, total) == idx >= total - 1

\* for i, segment in enumerate(segment_list): exhausted
LoopDone(idx, total) == idx >= total

RECURSIVE SeqProduct(_)
SeqProduct(sets) ==
    IF sets = << >> THEN { << >> }
    ELSE { << x >> \o r : x \in Head(sets), r \in SeqProduct(Tail(sets)) }

----------------------------------------------------------------------------
\* The inputs.

Chars == {"a", "u3002", ",", " ", "u3000"}

\* every text of at most n characters
TextsUpTo(n) == UNION { [1..k -> Chars] : k \in 0..n }

\* k letters
Word(k) == [j \in 1..k |-> "a"]

WordLens == {0, 1, 13, 26}
Separators == { << >>, << "," >>, << " " >>, << "u3000", " " >> }

\* segment texts around MAX_TEXT_LENGTH: up to three words and separators
LongTexts ==
    { Word(k1) \o s1 \o Word(k2) \o s2 \o Word(k3) :
        k1 \in WordLens, k2 \in WordLens, k3 \in WordLens,
        s1 \in Separators, s2 \in Separators }

\* (start, end) of a raw segment, in milliseconds, end >= start
\* (the hundredths they round to differ by a multiple of 4, so that no part
\* time of 2, 3 or 4 parts falls on an exact tie of round())
TimePairs ==
    { << 0, 10000 >>, << 4, 44 >>, << 1234, 1234 >>, << 996, 2004 >> }

Segment(tp, txt) == [start |-> tp[1], end |-> tp[2], text |-> txt]

LongSegments == { Segment(tp, txt) : tp \in TimePairs, txt \in LongTexts }

ShortSegments ==
    { Segment(tp, txt) :
        tp \in { << 0, 10000 >>, << 4, 44 >> },
        txt \in { << >>, << " " >>, << " ", "a" >>,
                  Word(13) \o << "," >> \o Word(13) } }

\* what the recognizer can yield: one segment of any shape, or several
\* short ones
Audios ==
    { << s >> : s \in LongSegments } \cup
    UNION { [1..n -> ShortSegments] : n \in 0..MaxSegments }

Children == [name : 1..MaxSnapshots, kind : {"file", "dir", "model"}]

\* os.listdir(snapshots_dir): the children in some order, names distinct
Listings ==
    { l \in UNION { [1..n -> Children] : n \in 0..MaxSnapshots } :
        \A a, b \in 1..Len(l) : a # b => l[a].name # l[b].name }

\* folder "none": no models root, or no snapshots directory in it
FsStates ==
    { f \in [id_is_dir : BOOLEAN, id_has_bin : BOOLEAN,
             folder : {"none", model_map["base"], model_map["large"]},
             listing : Listings] :
        /\ f.id_has_bin => f.id_is_dir
        /\ f.folder = "none" => f.listing = << >> }

ModelNames == {"base", "large", "large-v3", "Systran/faster-whisper-base"}

NoFs == [id_is_dir |-> FALSE, id_has_bin |-> FALSE, folder |-> "none",
         listing |-> << >>]

----------------------------------------------------------------------------
\* main

\* a run of the script: any file system with a silent audio, or any audio
\* with an empty file system
InitMain ==
    /\ pc = "start"
    /\ caller = "main"
    /\ \/ fs \in FsStates /\ model_name \in ModelNames /\ audio = << >>
       \/ fs = NoFs /\ model_name = "base" /\ audio \in Audios
    /\ text_arg = << >> /\ text = << >> /\ max_len = MAX_TEXT_LENGTH
    /\ result = << >> /\ split_pos = -1
    /\ model_path = << >> /\ segment_list = << >> /\ i = 0
    /\ start_time = 0 /\ end_time = 0 /\ subtitles = << >>
    /\ log = << >> /\ file_opened = FALSE /\ file_data = << >>
    /\ exit_code = -1

\* a direct call split_text(t, m)
InitSplit ==
    /\ pc = "split_call"
    /\ caller = "test"
    /\ text_arg \in TextsUpTo(MaxTextLen)
    /\ text = text_arg
    /\ max_len \in 1..MaxMaxLen
    /\ result = << >> /\ split_pos = -1
    /\ fs = NoFs /\ model_name = "base" /\ audio = << >>
    /\ model_path = << >> /\ segment_list = << >> /\ i = 0
    /\ start_time = 0 /\ end_time = 0 /\ subtitles = << >>
    /\ log = << >> /\ file_opened = FALSE /\ file_data = << >>
    /\ exit_code = -1

Init == InitMain \/ InitSplit

\* the except clauses: the lines, then sys.exit(1)
Fail(printed) ==
    /\ log' = log \o printed
    /\ exit_code' = ExitCodeOnError
    /\ pc' = "exit"
    /\ UNCHANGED << caller, fs, model_name, model_path, audio, segment_list,
                    i, start_time, end_time, subtitles, file_opened,
                    file_data >>
    /\ UNCHANGED splitVars

\* model_path = resolve_model_path(args.model); [INFO]; [PROGRESS] 10
Start ==
    /\ pc = "start"
    /\ model_path' = resolve_model_path(model_name, fs)
    /\ log' = log \o ResolveLog(model_name, fs)
                  \o << info_line, progress_line(10) >>
    /\ pc' = "import"
    /\ UNCHANGED << caller, fs, model_name, audio, segment_list, i,
                    start_time, end_time, subtitles, file_opened, file_data,
                    exit_code >>
    /\ UNCHANGED splitVars

\* from faster_whisper import WhisperModel
ImportOk ==
    /\ pc = "import"
    /\ pc' = "load"
    /\ UNCHANGED << caller >>
    /\ UNCHANGED mainVars
    /\ UNCHANGED splitVars

ImportFail ==
    /\ pc = "import"
    /\ Fail(import_error_lines)

\* model = WhisperModel(...); [INFO]; [PROGRESS] 20
LoadOk ==
    /\ pc = "load"
    /\ log' = log \o << info_line, progress_line(20) >>
    /\ pc' = "transcribe"
    /\ UNCHANGED << caller, fs, model_name, model_path, audio, segment_list,
                    i, start_time, end_time, subtitles, file_opened,
                    file_data, exit_code >>
    /\ UNCHANGED splitVars

LoadFail ==
    /\ pc = "load"
    /\ Fail(exception_lines)

\* [INFO]; [PROGRESS] 30; model.transcribe(...); [INFO]; [PROGRESS] 50
TranscribeOk ==
    /\ pc = "transcribe"
    /\ log' = log \o << info_line, progress_line(30), info_line,
                        progress_line(50) >>
    /\ pc' = "drain"
    /\ UNCHANGED << caller, fs, model_name, model_path, audio, segment_list,
                    i, start_time, end_time, subtitles, file_opened,
                    file_data, exit_code >>
    /\ UNCHANGED splitVars

\* model.transcribe raises, after [PROGRESS] 30 was printed
TranscribeFail ==
    /\ pc = "transcribe"
    /\ Fail(<< info_line, progress_line(30) >> \o exception_lines)

\* subtitles = {"data": []}; segment_list = list(segments)
DrainOk ==
    /\ pc = "drain"
    /\ segment_list' = audio
    /\ subtitles' = << >>
    /\ i' = 0
    /\ pc' = "loop"
    /\ UNCHANGED << caller, fs, model_name, model_path, audio, start_time,
                    end_time, log, file_opened, file_data, exit_code >>
    /\ UNCHANGED splitVars

\* the generator raises while it is drained
DrainFail ==
    /\ pc = "drain"
    /\ Fail(exception_lines)

\* the loop body up to the call of split_text, or the whole body for a
\* text of at most MAX_TEXT_LENGTH characters
LoopBody ==
    /\ pc = "loop"
    /\ ~LoopDone(i, Len(segment_list))
    /\ LET segment == segment_list[i + 1]
           txt == strip(segment.text)
       IN  /\ text_arg' = txt
           /\ start_time' \in Round2(segment.start, 10)
           /\ end_time' \in Round2(segment.end, 10)
           /\ IF Len(txt) > MAX_TEXT_LENGTH
              THEN /\ text' = txt
                   /\ max_len' = MAX_TEXT_LENGTH
                   /\ pc' = "split_call"
                   /\ UNCHANGED << subtitles, log, i >>
              ELSE /\ subtitles' =
                        Append(subtitles, [time |-> start_time', text |-> txt])
                   /\ log' = Append(log,
                        progress_line(progress_value(i, Len(segment_list))))
                   /\ i' = i + 1
                   /\ UNCHANGED << text, max_len, pc >>
    /\ UNCHANGED << caller, result, split_pos, fs, model_name, model_path,
                    audio, segment_list, file_opened, file_data, exit_code >>

\* the loop body after split_text returned: one entry per part, the progress
LoopParts ==
    /\ pc = "parts"
    /\ LET parts == result
           n == Len(parts)
       IN  \E times \in SeqProduct(
                  [j \in 1..n |-> part_times(start_time, end_time, n, j - 1)]) :
               subtitles' = subtitles \o
                   [j \in 1..n |-> [time |-> times[j], text |-> parts[j]]]
    /\ log' = Append(log, progress_line(progress_value(i, Len(segment_list))))
    /\ i' = i + 1
    /\ pc' = "loop"
    /\ UNCHANGED << caller, fs, model_name, model_path, audio, segment_list,
                    start_time, end_time, file_opened, file_data, exit_code >>
    /\ UNCHANGED splitVars

\* the loop body raises
LoopFail ==
    /\ pc = "loop"
    /\ ~LoopDone(i, Len(segment_list))
    /\ Fail(exception_lines)

\* [PROGRESS] 90; open and json.dump; [INFO]; [PROGRESS] 100; the JSON object
WriteOk ==
    /\ pc = "loop"
    /\ LoopDone(i, Len(segment_list))
    /\ file_opened' = TRUE
    /\ file_data' = subtitles
    /\ log' = log \o << progress_line(90), info_line, progress_line(100),
                        json_line(Len(subtitles)) >>
    /\ exit_code' = 0
    /\ pc' = "exit"
    /\ UNCHANGED << caller, fs, model_name, model_path, audio, segment_list,
                    i, start_time, end_time, subtitles >>
    /\ UNCHANGED splitVars

\* open(args.output, "w") raises
OpenFail ==
    /\ pc = "loop"
    /\ LoopDone(i, Len(segment_list))
    /\ Fail(<< progress_line(90) >> \o exception_lines)

\* json.dump raises: the file was opened (and truncated)
DumpFail ==
    /\ pc = "loop"
    /\ LoopDone(i, Len(segment_list))
    /\ log' = log \o << progress_line(90) >> \o exception_lines
    /\ file_opened' = TRUE
    /\ exit_code' = ExitCodeOnError
    /\ pc' = "exit"
    /\ UNCHANGED << caller, fs, model_name, model_path, audio, segment_list,
                    i, start_time, end_time, subtitles, file_data >>
    /\ UNCHANGED splitVars

Next ==
    \/ SplitEnter \/ SplitIter \/ SplitExit
    \/ Start
    \/ ImportOk \/ ImportFail
    \/ LoadOk \/ LoadFail
    \/ TranscribeOk \/ TranscribeFail
    \/ DrainOk \/ DrainFail
    \/ LoopBody \/ LoopParts \/ LoopFail
    \/ WriteOk \/ OpenFail \/ DumpFail

Spec == Init /\ [][Next]_vars

----------------------------------------------------------------------------
\* Properties.

Returned == pc \in {"split_done", "parts"}
InSplit == pc \in {"split_call", "split_loop"}

Stdout == SelectSeq(log, LAMBDA x : x.stream = "stdout")
ProgressLines == SelectSeq(log, LAMBDA x : x.kind = "PROGRESS")
ProgressValues == [k \in 1..Len(ProgressLines) |-> ProgressLines[k].val]

\* the entries a step appended to subtitles["data"]
NewEntries == SubSeq(subtitles', Len(subtitles) + 1, Len(subtitles'))

\* C1: every chunk split_text returns is at most max_len characters long,
\* and every entry text of the driver at most MAX_TEXT_LENGTH (25)
ChunksWithinMaxLen ==
    /\ \A k \in 1..Len(result) : Len(result[k]) <= max_len
    /\ \A k \in 1..Len(subtitles) : Len(subtitles[k].text) <= 25

\* a finished run in which a segment was force-split into full-length chunks
ChunksWithinMaxLenWitness ==
    /\ pc = "exit" /\ exit_code = 0
    /\ Len(subtitles) >= 3
    /\ \E k \in 1..Len(subtitles) : Len(subtitles[k].text) = 25
    /\ \E k \in 1..Len(subtitles) : Len(subtitles[k].text) \in 2..24

\* t is the chunks in order with nothing but whitespace between them
RECURSIVE Reconstructs(_, _)
Reconstructs(t, chunks) ==
    IF chunks = << >> THEN t = << >>
    ELSE LET c == Head(chunks)
         IN  /\ Len(c) <= Len(t)
             /\ SubSeq(t, 1, Len(c)) = c
             /\ IF Len(chunks) = 1 THEN Len(t) = Len(c)
                ELSE \E g \in 0..(Len(t) - Len(c)) :
                        /\ \A k \in (Len(c) + 1)..(Len(c) + g) : IsSpace(t[k])
                        /\ Reconstructs(SubSeq(t, Len(c) + g + 1, Len(t)),
                                        Tail(chunks))

RECURSIVE TotalLen(_)
TotalLen(chunks) ==
    IF chunks = << >> THEN 0 ELSE Len(Head(chunks)) + TotalLen(Tail(chunks))

\* C2: for a trimmed text, the chunks split_text returns, in order, give the
\* text back once whitespace is inserted between consecutive chunks
ChunksReconstructText ==
    (Returned /\ strip(text_arg) = text_arg) => Reconstructs(text_arg, result)

\* a trimmed text cut in three or more, with whitespace lost at a cut
ChunksReconstructTextWitness ==
    /\ pc = "split_done"
    /\ strip(text_arg) = text_arg
    /\ Len(result) >= 3
    /\ TotalLen(result) < Len(text_arg)

\* C3 (as amended): the entry of the chunk at 0-based index j of n has time
\* start + j * (end - start) / n rounded to hundredths, where start and end
\* are the segment's times each already rounded to hundredths
PartTimesFromRoundedTimes ==
    [][pc = "parts" =>
        LET n == Len(result)
            seg == segment_list[i + 1]
        IN  /\ start_time \in Round2(seg.start, 10)
            /\ end_time \in Round2(seg.end, 10)
            /\ Len(NewEntries) = n
            /\ \A j \in 0..(n - 1) :
                 /\ NewEntries[j + 1].text = result[j + 1]
                 /\ NewEntries[j + 1].time \in
                      Round2(start_time * n + j * (end_time - start_time), n)
      ]_vars

\* the segment 0.0 .. 10.0 in three chunks: 0.0, 3.33, 6.67
PartTimesWitness ==
    /\ pc = "loop" /\ i = 1
    /\ segment_list[1].start = 0 /\ segment_list[1].end = 10000
    /\ Len(subtitles) = 3
    /\ subtitles[1].time = 0 /\ subtitles[2].time = 333
    /\ subtitles[3].time = 667

\* C3 (as stated): the same, from the segment's unrounded times (milliseconds)
PartTimesFromRawTimes ==
    [][pc = "parts" =>
        LET n == Len(result)
            seg == segment_list[i + 1]
        IN  /\ Len(NewEntries) = n
            /\ \A j \in 0..(n - 1) :
                 NewEntries[j + 1].time \in
                     Round2(seg.start * n + j * (seg.end - seg.start), 10 * n)
      ]_vars

\* C4 (as stated): no entry of data has an empty text, so a segment whose
\* text is empty or whitespace contributes no entry
NoEmptyEntry ==
    \A k \in 1..Len(subtitles) : subtitles[k].text # << >>

\* C5: the output file is opened only once every raw segment is drained and
\* converted; a failure of the import, the load, the transcription or the
\* segment processing ends the run with status 1 after a diagnostic on
\* stderr, the file unopened, and neither [PROGRESS] 100 nor the JSON object
OutputOnlyAfterAllSegments ==
    [][ /\ (file_opened' /\ ~file_opened) =>
              /\ pc = "loop"
              /\ segment_list = audio
              /\ i = Len(audio)
        /\ ( /\ pc' = "exit"
             /\ \/ pc \in {"import", "load", "transcribe", "drain"}
                \/ pc = "loop" /\ i < Len(segment_list) ) =>
              /\ exit_code' = 1
              /\ ~file_opened'
              /\ Len(log') > Len(log)
              /\ \E k \in (Len(log) + 1)..Len(log') :
                    log'[k].kind = "ERROR" /\ log'[k].stream = "stderr"
              /\ \A k \in 1..Len(log') :
                    /\ log'[k].kind # "JSON"
                    /\ ~(log'[k].kind = "PROGRESS" /\ log'[k].val = 100)
      ]_vars

\* a run that failed in the middle of the segments
OutputOnlyAfterAllSegmentsWitness ==
    /\ pc = "exit" /\ exit_code = 1
    /\ ~file_opened
    /\ Len(subtitles) >= 1
    /\ i < Len(segment_list)

ProgressSequence ==
    /\ \A k \in 1..Len(ProgressValues) : ProgressValues[k] \in 0..100
    /\ \A k \in 1..(Len(ProgressValues) - 1) :
          ProgressValues[k] <= ProgressValues[k + 1]
    /\ exit_code = 0 =>
          LET N == Len(audio)
              D == IF N > 1 THEN N ELSE 1
          IN  ProgressValues =
                  << 10, 20, 30, 50 >> \o
                  [k \in 1..N |-> 50 + (k * 40) \div D] \o
                  << 90, 100 >>

\* a successful run over the most segments
ProgressSequenceWitness ==
    /\ pc = "exit" /\ exit_code = 0
    /\ Len(audio) = MaxSegments
    /\ Len(ProgressValues) = MaxSegments + 6

ShortNames == {"tiny", "base", "small", "medium", "large", "large-v3"}

\* the children of the canonical snapshots directory that hold model.bin
ModelChildren ==
    IF model_name \in ShortNames /\ fs.folder = model_map[model_name]
    THEN {k \in 1..Len(fs.listing) : fs.listing[k].kind = "model"}
    ELSE {}

\* C8: resolve_model_path returns the identifier if it is a directory that
\* holds model.bin; else, for a short name whose snapshots directory has a
\* child directory holding model.bin, the first such child in listing order;
\* else the identifier
ResolveCases ==
    (caller = "main" /\ pc # "start") =>
        IF fs.id_is_dir /\ fs.id_has_bin THEN model_path = << model_name >>
        ELSE IF ModelChildren # {}
             THEN LET first == CHOOSE k \in ModelChildren :
                                  \A m \in ModelChildren : k <= m
                  IN  model_path = << models_dir, model_map[model_name],
                                      "snapshots", fs.listing[first].name >>
             ELSE model_path = << model_name >>

\* "large" resolved to the second child, the first being a directory
\* without model.bin
ResolveCasesWitness ==
    /\ caller = "main" /\ pc # "start"
    /\ model_name = "large"
    /\ ~fs.id_is_dir
    /\ Len(fs.listing) >= 2
    /\ fs.listing[1].kind = "dir"
    /\ fs.listing[2].kind = "model"
    /\ Len(model_path) = 4
    /\ model_path[4] = fs.listing[2].name

BoundaryChars ==
    {"u3002", "uFF01", "uFF1F", "uFF0C", "u3001", "uFF1B",
     ".", "!", "?", ",", ";", " "}

\* C9: each iteration cuts at the largest index in 1..max_len-1 that holds
\* any boundary character, or at max_len-1 when there is none; the chunk is
\* r[0..cut] trimmed and the new remaining text r[cut+1..] trimmed
CutIsRightmostBoundary ==
    [][(pc = "split_loop" /\ Len(text) > max_len) =>
        LET B == {k \in 1..(max_len - 1) : text[k + 1] \in BoundaryChars}
            cut == IF B # {} THEN Max(B) ELSE max_len - 1
        IN  /\ split_pos' = cut
            /\ result' = Append(result, strip(SubSeq(text, 1, cut + 1)))
            /\ text' = strip(SubSeq(text, cut + 2, Len(text)))
      ]_vars

\* a first cut at a space that follows a comma in the window
CutIsRightmostBoundaryWitness ==
    /\ pc = "split_loop"
    /\ Len(result) = 1
    /\ \E a \in 1..(max_len - 1) :
          /\ a < split_pos
          /\ text_arg[a + 1] = ","
    /\ split_pos < max_len
    /\ text_arg[split_pos + 1] = " "

\* C10: split_text terminates with at least one chunk: every iteration
\* shortens the remaining text and adds one chunk, so there are at most
\* len(t) iterations before the remaining text is at most max_len long
SplitTerminates ==
    [][ /\ (pc = "split_loop" /\ Len(text) > max_len) =>
              /\ Len(text') < Len(text)
              /\ Len(result') = Len(result) + 1
        /\ pc' = "split_loop" => Len(result') + Len(text') <= Len(text_arg)
        /\ (InSplit /\ Returned') => Len(result') >= 1
      ]_vars

\* a call that returned after as many iterations as max_len allows
SplitTerminatesWitness ==
    /\ pc = "split_done"
    /\ max_len = 1
    /\ Len(text_arg) >= 4
    /\ Len(result) = Len(text_arg)

====
